---------------------------- MODULE Spec2Model ----------------------------
(***************************************************************************)
(* Model of src/streamlit_app.py: a Streamlit application that builds a    *)
(* YAML semantic model in st.session_state and chats with Cortex Analyst.  *)
(*                                                                         *)
(* One step of the model is one run of the script (Streamlit re-executes   *)
(* the whole script on every user interaction): the module-level code of   *)
(* lines 94-97, then main(), which renders the page selected in the        *)
(* sidebar radio.  A run that raises stops where the exception is raised;  *)
(* what it assigned to st.session_state before that stays assigned.        *)
(*                                                                         *)
(* Python dicts are functions whose domain is the set of keys present;     *)
(* Python lists are sequences; strings are strings.                        *)
(***************************************************************************)
EXTENDS Integers, Sequences, FiniteSets, TLC

VARIABLES
    session_state,  \* st.session_state: key -> value, for the keys present
    page,           \* the value of the sidebar radio "Go to" (line 464)
    widgets,        \* the clickable widgets the last run rendered
    run,            \* what the last run of the script did and how it ended
    interactions    \* number of runs so far that added a table or sent a prompt

vars == <<session_state, page, widgets, run, interactions>>

-----------------------------------------------------------------------------
(* Bounds of the model *)

\* Runs explored in one behaviour that press "Add Table to YAML" or send a
\* prompt to the conversational service.
MaxInteractions == 2

\* Tables already added in the nearly full session SpecCeiling starts from.
Prefill == 99

(* Program constants *)

\* The ceiling on added tables (line 352).
TableCeiling == 100

\* The first HTTP status that is a failure (line 38).
FailStatus == 400

-----------------------------------------------------------------------------
(* Python values and dict operations *)

None == "None"

\* Python truthiness of st.session_state.active_suggestion (line 110)
Truthy(v) == v # None /\ v # ""

EmptyDict == [k \in {} |-> None]

\* d[k] = v
Put(d, k, v) == [x \in (DOMAIN d) \cup {k} |-> IF x = k THEN v ELSE d[x]]

\* del d[k]
Del(d, k) == [x \in (DOMAIN d) \ {k} |-> d[x]]

-----------------------------------------------------------------------------
(* The external collaborators: catalog, LLM, conversational service *)

Pages == {"Welcome", "Getting Started", "Table Definition",
          "Chat with Your Data", "Reset"}

\* What the user types into the two text widgets of the Getting Started page.
SemanticNames == {"sales", "hr"}
Descriptions == {"demo model"}

Database == "DB"
Schema == "SC"
Stage == "STG"
Tables == {"ORDERS", "EVENTS", "FLAGS"}

\* DESCRIBE TABLE: the (name, type) rows of each table, in catalog order.
DescribeTable(t) ==
    CASE t = "ORDERS" ->
           << [name |-> "ID",         type |-> "NUMBER"],
              [name |-> "NAME",       type |-> "VARCHAR(50)"],
              [name |-> "CREATED_AT", type |-> "TIMESTAMP_NTZ"] >>
      [] t = "EVENTS" ->
           << [name |-> "PAYLOAD", type |-> "VARIANT"],
              [name |-> "DAY",     type |-> "date"],
              [name |-> "AMOUNT",  type |-> "NUMBER(38,0)"],
              [name |-> "LABEL",   type |-> "Text"],
              [name |-> "UNTIL",   type |-> "TIMESTAMP_TZ"] >>
      [] t = "FLAGS" ->
           << [name |-> "ACTIVE", type |-> "BOOLEAN"] >>

\* str.upper() on the declared types above
Upper(s) ==
    CASE s = "date" -> "DATE"
      [] s = "Text" -> "TEXT"
      [] OTHER -> s

\* The completion for a prompt about table_name (lines 177 and 202): the
\* model gives every prompt about the same table the same completion.
Complete(table_name) ==
    IF table_name = "ORDERS" THEN "\"Tracks customer orders!\"\n"
    ELSE "Daily-revenue figures."

\* re.sub('[^A-Za-z0-9]+', ' ', r).replace('"', "").strip().replace('\n', ' ')
\* (lines 179 and 203) on the raw completions above
Sanitize(r) ==
    CASE r = "\"Tracks customer orders!\"\n" -> "Tracks customer orders"
      [] r = "Daily-revenue figures." -> "Daily revenue figures"

\* Where a collaborator call of a run may fail.
AddFailPoints == {"describe", "column_description", "min_max", "table_description"}


-----------------------------------------------------------------------------
(* The semantic model builder: show_table_definition_page, lines 347-416 *)

\* The placeholder document of lines 292-345.
yaml_template ==
    [name |-> "<name>",
     description |-> "<string>",
     tables |-> <<
        [name |-> "<name>",
         description |-> "<string>",
         base_table |-> [database |-> "<database>", schema |-> "<schema>",
                         table |-> "<base table name>"],
         dimensions |-> <<
            [name |-> "<name>", synonyms |-> <<"<array of strings>">>,
             description |-> "<string>", expr |-> "<SQL expression>",
             data_type |-> "<data type>"] >>,
         time_dimensions |-> <<
            [name |-> "date", synonyms |-> <<"<array of strings>">>,
             description |-> "<string>", expr |-> "date",
             data_type |-> "date"] >>,
         measures |-> <<
            [name |-> "<name>", synonyms |-> <<"<array of strings>">>,
             description |-> "<string>", expr |-> "<SQL expression>",
             data_type |-> "<data type>",
             default_aggregation |-> "<aggregate function>"] >>,
         filters |-> <<
            [name |-> "<name>", synonyms |-> <<"<array of strings>">>,
             description |-> "<string>", expr |-> "<SQL expression>"] >>
        ] >>]

\* The three literal lists of lines 379, 389 and 399.
TemporalTypes ==
    {"DATE", "DATETIME", "TIME", "TIMESTAMP", "TIMESTAMP_LTZ(9)",
     "TIMESTAMP_NTZ", "TIMESTAMP_TZ"}

TextualTypes ==
    {"VARCHAR(50)", "VARCHAR(16777216)", "VARCHAR(1)", "VARCHAR(10)",
     "VARCHAR(20)", "VARCHAR(30)", "CHAR", "CHARACTER", "STRING", "TEXT",
     "BINARY", "VARBINARY"}

NumericTypes ==
    {"NUMBER", "DECIMAL", "NUMERIC", "INT", "INTEGER", "BIGINT", "SMALLINT",
     "TINYINT", "BYTEINT", "FLOAT", "FLOAT4", "FLOAT8", "DOUBLE",
     "DOUBLE PRECISION", "REAL"}

\* The dict literal of lines 380-387, 390-397 and 400-405 (the same keys).
ColumnEntryRawType(col, column_description) ==
    [name |-> col.name, expr |-> col.name,
     description |-> column_description, data_type |-> col.type]

ColumnEntry(col, column_description) ==
    [name |-> col.name, expr |-> col.name,
     description |-> column_description, data_type |-> Upper(col.type)]

\* One pass of the loop body, lines 379-406: three independent if statements.
ClassifyColumnCatchAll(entry, col, column_description) ==
    LET ty == Upper(col.type)
        c  == ColumnEntry(col, column_description)
    IN  IF ty \in TemporalTypes
        THEN [entry EXCEPT !.time_dimensions = Append(@, c)]
        ELSE IF ty \in NumericTypes
        THEN [entry EXCEPT !.measures = Append(@, c)]
        ELSE [entry EXCEPT !.dimensions = Append(@, c)]

ClassifyColumn(entry, col, column_description) ==
    LET ty == Upper(col.type)
        c  == ColumnEntry(col, column_description)
        e1 == IF ty \in TemporalTypes
              THEN [entry EXCEPT !.time_dimensions = Append(@, c)] ELSE entry
        e2 == IF ty \in TextualTypes
              THEN [e1 EXCEPT !.dimensions = Append(@, c)] ELSE e1
        e3 == IF ty \in NumericTypes
              THEN [e2 EXCEPT !.measures = Append(@, c)] ELSE e2
    IN  e3

\* The loop of line 378 over zip(columns, data_types, descriptions, ...),
\* from column i on.
RECURSIVE ClassifyFrom(_, _, _, _)
ClassifyFrom(entry, cols, descs, i) ==
    IF i > Len(cols) THEN entry
    ELSE ClassifyFrom(ClassifyColumn(entry, cols[i], descs[i]), cols, descs, i + 1)

\* Lines 408-413: delete the variant lists that stayed empty.
DropEmptyKeepMeasures(entry) ==
    LET e1 == IF Len(entry.dimensions) = 0 THEN Del(entry, "dimensions") ELSE entry
        e3 == IF Len(e1.time_dimensions) = 0 THEN Del(e1, "time_dimensions") ELSE e1
    IN  e3

DropEmpty(entry) ==
    LET e1 == IF Len(entry.dimensions) = 0 THEN Del(entry, "dimensions") ELSE entry
        e2 == IF Len(e1.measures) = 0 THEN Del(e1, "measures") ELSE e1
        e3 == IF Len(e2.time_dimensions) = 0 THEN Del(e2, "time_dimensions") ELSE e2
    IN  e3

\* generate_column_description and generate_table_description, lines
\* 135-203: the sanitized completion.
generate_description(table_name) == Sanitize(Complete(table_name))

\* Lines 355-413: the Table entry for table_selector.
BuildTableEntry(table_selector) ==
    LET cols  == DescribeTable(table_selector)
        descs == [i \in 1..Len(cols) |-> generate_description(table_selector)]
        table_entry ==
            [name |-> table_selector,
             description |-> generate_description(table_selector),
             base_table |-> [database |-> Database, schema |-> Schema,
                             table |-> table_selector],
             dimensions |-> <<>>,
             time_dimensions |-> <<>>,
             measures |-> <<>>]
    IN  DropEmpty(ClassifyFrom(table_entry, cols, descs, 1))

-----------------------------------------------------------------------------
(* yaml.dump(document, sort_keys=False, indent=2, width=900), line 415.     *)
(* The text is the sequence of its lines; a line is                         *)
(* <<indentation, whether it opens a list item with "- ", key, scalar>>.    *)
(* Keys come out in the order the dict literals of lines 259-263, 364-375   *)
(* and 380-405 insert them; a block sequence is not indented under its key. *)

\* A plain scalar; the empty string is written as ''.
Scalar(v) == IF v = "" THEN "''" ELSE v

DumpColumn(c, ind) ==
    << <<ind, TRUE, "name", Scalar(c.name)>>,
       <<ind + 2, FALSE, "expr", Scalar(c.expr)>>,
       <<ind + 2, FALSE, "description", Scalar(c.description)>>,
       <<ind + 2, FALSE, "data_type", Scalar(c.data_type)>> >>

RECURSIVE DumpColumns(_, _)
DumpColumns(cs, ind) ==
    IF cs = <<>> THEN <<>>
    ELSE DumpColumn(Head(cs), ind) \o DumpColumns(Tail(cs), ind)

\* One variant list of a table: absent key, empty list ("[]"), or a block.
DumpVariant(e, key) ==
    IF key \notin DOMAIN e THEN <<>>
    ELSE IF Len(e[key]) = 0 THEN << <<2, FALSE, key, "[]">> >>
    ELSE << <<2, FALSE, key, "">> >> \o DumpColumns(e[key], 2)

DumpTable(e) ==
    << <<0, TRUE, "name", Scalar(e.name)>>,
       <<2, FALSE, "description", Scalar(e.description)>>,
       <<2, FALSE, "base_table", "">>,
       <<4, FALSE, "database", Scalar(e.base_table.database)>>,
       <<4, FALSE, "schema", Scalar(e.base_table.schema)>>,
       <<4, FALSE, "table", Scalar(e.base_table.table)>> >>
    \o DumpVariant(e, "dimensions")
    \o DumpVariant(e, "time_dimensions")
    \o DumpVariant(e, "measures")

\* The tables lo..hi of the list, one after the other.
RECURSIVE DumpTables(_, _, _)
DumpTables(ts, lo, hi) ==
    IF lo > hi THEN <<>>
    ELSE IF lo = hi THEN DumpTable(ts[lo])
    ELSE LET mid == (lo + hi) \div 2
         IN  DumpTables(ts, lo, mid) \o DumpTables(ts, mid + 1, hi)

DumpLastTableOnly(doc) ==
    << <<0, FALSE, "name", Scalar(doc.name)>>,
       <<0, FALSE, "description", Scalar(doc.description)>>,
       <<0, FALSE, "tables", "">> >>
    \o DumpTable(doc.tables[Len(doc.tables)])

Dump(doc) ==
    << <<0, FALSE, "name", Scalar(doc.name)>>,
       <<0, FALSE, "description", Scalar(doc.description)>>,
       <<0, FALSE, "tables", IF Len(doc.tables) = 0 THEN "[]" ELSE "">> >>
    \o DumpTables(doc.tables, 1, Len(doc.tables))

-----------------------------------------------------------------------------
(* Widgets and the outcome of a run *)

\* A button is identified by its label, a suggestion button by its key
\* f"{message_index}_{suggestion_index}" (line 69).
Button(label) == <<label, 0, 0>>
SuggestionButton(message_index, suggestion_index) ==
    <<"suggestion", message_index, suggestion_index>>
NoClick == <<"", 0, 0>>

\* The result of rendering a page: the session state it leaves, the
\* exception that ended it ("none" when it returned), the widgets it
\* rendered, what an Add-table click did, and its send_message calls.
Outcome(st, err, ws, effect, calls) ==
    [st |-> st, err |-> err, widgets |-> ws, effect |-> effect, calls |-> calls]

\* Lines 94-97, executed at the start of every run.
ModuleInit(s) ==
    IF "messages" \notin DOMAIN s
    THEN Put(Put(Put(s, "messages", <<>>), "suggestions", <<>>),
             "active_suggestion", None)
    ELSE s

-----------------------------------------------------------------------------
(* show_welcome_page and show_get_started_page *)

ShowWelcome(s) == Outcome(s, "none", {}, "", <<>>)

\* Lines 251-265; click: "Save Semantic Model Info" was pressed.
ShowGetStarted(s, click, semantic_name, description) ==
    LET saved ==
            Put(Put(Put(Put(s, "semantic_name", semantic_name),
                        "description", description),
                    "tables", <<>>),
                "yaml_structure",
                [name |-> semantic_name, description |-> description,
                 tables |-> <<>>])
    IN  Outcome(IF click THEN saved ELSE s, "none",
                {Button("Save Semantic Model Info")}, "", <<>>)

-----------------------------------------------------------------------------
(* show_table_definition_page, lines 268-434 *)

\* Line 352
UnderCeilingInclusive(s) == Len(s["tables"]) <= TableCeiling

UnderCeiling(s) == Len(s["tables"]) < TableCeiling

\* Line 414: st.session_state['yaml_structure']['tables'].append(table_entry)
AppendTableDedup(s, table_entry) ==
    IF \E i \in 1..Len(s["yaml_structure"].tables) :
           s["yaml_structure"].tables[i].name = table_entry.name
    THEN s
    ELSE Put(s, "yaml_structure",
             [s["yaml_structure"] EXCEPT !.tables = Append(@, table_entry)])

AppendTable(s, table_entry) ==
    Put(s, "yaml_structure",
        [s["yaml_structure"] EXCEPT !.tables = Append(@, table_entry)])

\* Lines 415-416
StoreYamlLastOnly(s) == Put(s, "yaml_str", DumpLastTableOnly(s["yaml_structure"]))

StoreYaml(s) == Put(s, "yaml_str", Dump(s["yaml_structure"]))

\* Lines 352-416 once the button is known to be pressed: the state the
\* body leaves when the collaborator call named by fail raises ("none":
\* no call raises).
AddBodyEager(s, table_selector, fail) ==
    LET s1 == Put(s, "tables", Append(s["tables"], table_selector))
        s2 == AppendTable(s1, BuildTableEntry(table_selector))
    IN  IF fail \in AddFailPoints THEN s2 ELSE StoreYaml(s2)

AddBody(s, table_selector, fail) ==
    LET s1 == Put(s, "tables", Append(s["tables"], table_selector))
    IN  IF fail \in AddFailPoints THEN s1
        ELSE StoreYaml(AppendTable(s1, BuildTableEntry(table_selector)))

TablePageWidgets ==
    {Button("Add Table to YAML"), Button("Download YAML file"),
     Button("Upload to Stage")}

\* click: "Add Table to YAML" was pressed; fail = "show": one of the
\* catalog listings of lines 272-288 raises.
ShowTableDefinition(s, click, table_selector, fail) ==
    LET s1 == IF "yaml_structure" \notin DOMAIN s
              THEN Put(s, "yaml_structure", yaml_template) ELSE s
    IN  IF fail = "show" THEN Outcome(s, "Exception", {}, "", <<>>)
        ELSE IF ~click THEN Outcome(s1, "none", TablePageWidgets, "", <<>>)
        ELSE IF "tables" \notin DOMAIN s1
        THEN Outcome(s1, "KeyError", {Button("Add Table to YAML")}, "none", <<>>)
        ELSE IF ~UnderCeiling(s1)
        THEN Outcome(s1, "none", TablePageWidgets, "ceiling", <<>>)
        ELSE IF fail \in AddFailPoints
        THEN Outcome(AddBody(s1, table_selector, fail), "Exception",
                     {Button("Add Table to YAML")}, "none", <<>>)
        ELSE Outcome(AddBody(s1, table_selector, fail), "none",
                     TablePageWidgets, "appended", <<>>)

\* upload_to_stage, lines 118-122, the on_click callback of "Upload to
\* Stage"; the file name is the tuple of the parts line 120 concatenates.
Timestamp == "202401011200"

UploadToStageCallback(s, fail) ==
    IF "semantic_name" \notin DOMAIN s THEN [st |-> s, err |-> "KeyError"]
    ELSE IF fail = "put" THEN [st |-> s, err |-> "Exception"]
    ELSE [st |-> Put(s, "semantic_file_name",
                     <<Database, Schema, Stage, s["semantic_name"], Timestamp>>),
          err |-> "none"]

-----------------------------------------------------------------------------
(* reset_app, lines 438-446 *)

\* for key in st.session_state.keys(): del st.session_state[key]
\* (st.session_state.keys() iterates over a copy of the state, so every key
\* it lists is deleted)
DelAllButChat(s, keys) ==
    [x \in (DOMAIN s) \ (keys \ {"messages", "active_suggestion"}) |-> s[x]]

DelAll(s, keys) == [x \in (DOMAIN s) \ keys |-> s[x]]

ResetApp(s, click) ==
    Outcome(IF click THEN DelAll(s, DOMAIN s) ELSE s, "none",
            {Button("Reset")}, "", <<>>)

-----------------------------------------------------------------------------
(* The conversational service: send_message, process_message,               *)
(* display_content and show_cortex_analyst_page, lines 13-112               *)

Prompts == {"q1"}

\* Content lists the service may answer with.
Contents ==
    { << [type |-> "text", text |-> "a1"] >>,
      << [type |-> "text", text |-> "a2"],
         [type |-> "suggestions", suggestions |-> <<"s1">>] >>,
      << [type |-> "sql", statement |-> "SELECT 1"] >> }

\* resp of line 29: the status and the JSON text of the body; the JSON
\* text is kept as the document it encodes, wrapped.  The service answers
\* a request it accepts with a message that has content, and one it
\* rejects with an error body.
Responses ==
    { [status |-> st, content |-> [json |-> [message |-> [content |-> c]]]] :
        st \in {200, 399}, c \in Contents }
    \cup
    { [status |-> st, content |-> [json |-> [message |-> [error |-> "bad request"]]]] :
        st \in {400} }

json_loads(text) == text.json

\* Lines 38-43: whether send_message returns (and what) or raises.  The
\* request body of lines 15-28 reads st.session_state['semantic_file_name'],
\* which line 101 has already read when a prompt is processed.
send_message_inclusive(prompt, resp) ==
    IF resp.status <= FailStatus
    THEN [raised |-> FALSE, value |-> json_loads(resp.content)]
    ELSE [raised |-> TRUE, value |-> None]

send_message(prompt, resp) ==
    IF resp.status < FailStatus
    THEN [raised |-> FALSE, value |-> json_loads(resp.content)]
    ELSE [raised |-> TRUE, value |-> None]

\* Line 62: message_index or len(st.session_state.messages); the default
\* None and the index 0 are both falsy, and 0 stands for both here.
WidgetIndex(s, message_index) ==
    IF message_index = 0 THEN Len(s["messages"]) ELSE message_index

\* Lines 63-92 from item j on; clicked is the button pressed for this run,
\* sqlOK whether session.sql(...).to_pandas() succeeds in this run.
RECURSIVE DisplayFrom(_, _, _, _, _, _, _)
DisplayFrom(s, content, key, j, clicked, sqlOK, buttons) ==
    IF j > Len(content) THEN [st |-> s, err |-> "none", widgets |-> buttons]
    ELSE
      LET item == content[j] IN
      CASE item.type = "suggestions" ->
             LET n    == Len(item.suggestions)
                 hit  == {i \in 1..n : clicked = SuggestionButton(key, i - 1)}
                 s1   == IF hit = {} THEN s
                         ELSE Put(s, "active_suggestion",
                                  item.suggestions[CHOOSE i \in hit : TRUE])
             IN  DisplayFrom(s1, content, key, j + 1, clicked, sqlOK,
                     buttons \cup {SuggestionButton(key, i - 1) : i \in 1..n})
        [] item.type = "sql" ->
             IF sqlOK
             THEN DisplayFrom(s, content, key, j + 1, clicked, sqlOK, buttons)
             ELSE [st |-> s, err |-> "Exception", widgets |-> buttons]
        [] OTHER ->
             DisplayFrom(s, content, key, j + 1, clicked, sqlOK, buttons)

display_content(s, content, message_index, clicked, sqlOK) ==
    DisplayFrom(s, content, WidgetIndex(s, message_index), 1, clicked, sqlOK, {})

\* Lines 103-105 from the message at (0-based) index m on.
RECURSIVE HistoryFrom(_, _, _, _, _)
HistoryFrom(s, m, clicked, sqlOK, buttons) ==
    IF m >= Len(s["messages"]) THEN [st |-> s, err |-> "none", widgets |-> buttons]
    ELSE
      LET d == display_content(s, s["messages"][m + 1].content, m, clicked, sqlOK)
      IN  IF d.err # "none"
          THEN [st |-> d.st, err |-> d.err, widgets |-> buttons \cup d.widgets]
          ELSE HistoryFrom(d.st, m + 1, clicked, sqlOK, buttons \cup d.widgets)

UserMessage(prompt) ==
    [role |-> "user", content |-> << [type |-> "text", text |-> prompt] >>]

\* Lines 45-57
process_message(s, prompt, resp, sqlOK) ==
    LET s1   == Put(s, "messages", Append(s["messages"], UserMessage(prompt)))
        r    == send_message(prompt, resp)
        call == [prompt |-> prompt, status |-> resp.status, returned |-> ~r.raised]
    IN  IF r.raised
        THEN Outcome(s1, "Exception", {}, "", <<call>>)
        ELSE IF "content" \notin DOMAIN r.value.message
        THEN Outcome(s1, "KeyError", {}, "", <<call>>)
        ELSE
          LET content == r.value.message.content
              d == display_content(s1, content, 0, NoClick, sqlOK)
          IN  IF d.err # "none"
              THEN Outcome(d.st, d.err, d.widgets, "", <<call>>)
              ELSE Outcome(Put(d.st, "messages",
                               Append(d.st["messages"],
                                      [role |-> "assistant", content |-> content])),
                           "none", d.widgets, "", <<call>>)

\* Lines 99-112; user_input is None when nothing was typed.
ShowCortexAnalyst(s, user_input, clicked, resp1, resp2, sqlOK) ==
    IF "semantic_file_name" \notin DOMAIN s
    THEN Outcome(s, "KeyError", {}, "", <<>>)
    ELSE
      LET h == HistoryFrom(s, 0, clicked, sqlOK, {}) IN
      IF h.err # "none" THEN Outcome(h.st, h.err, h.widgets, "", <<>>)
      ELSE
        LET w1 == h.widgets \cup {Button("What is your question?")}
            p1 == IF user_input # None
                  THEN process_message(h.st, user_input, resp1, sqlOK)
                  ELSE Outcome(h.st, "none", {}, "", <<>>)
        IN  IF p1.err # "none"
            THEN Outcome(p1.st, p1.err, w1 \cup p1.widgets, "", p1.calls)
            ELSE IF ~Truthy(p1.st["active_suggestion"])
            THEN Outcome(p1.st, "none", w1 \cup p1.widgets, "", p1.calls)
            ELSE
              LET p2 == process_message(p1.st, p1.st["active_suggestion"],
                                        resp2, sqlOK)
              IN  IF p2.err # "none"
                  THEN Outcome(p2.st, p2.err, w1 \cup p1.widgets \cup p2.widgets,
                               "", p1.calls \o p2.calls)
                  ELSE Outcome(Put(p2.st, "active_suggestion", None), "none",
                               w1 \cup p1.widgets \cup p2.widgets, "",
                               p1.calls \o p2.calls)

-----------------------------------------------------------------------------
(* main(), lines 450-482, and the runs of the script *)

\* Lines 481-482, after the selected page was rendered.
AutoNavigate(o) ==
    IF o.err = "none" /\ "page" \in DOMAIN o.st
    THEN IF o.st["page"] = "Table Definition"
         THEN LET t == ShowTableDefinition(o.st, FALSE, "", "none")
              IN  Outcome(t.st, t.err, o.widgets \cup t.widgets, o.effect, o.calls)
         ELSE o
    ELSE o

\* The run ends: what it leaves behind.  fail names the collaborator call
\* that raises if the run reaches it ("none": every call answers).
Finish(o, op, arg, fail) ==
    LET f == AutoNavigate(o) IN
    /\ session_state' = f.st
    /\ widgets' = f.widgets
    /\ run' = [op |-> op, err |-> f.err, effect |-> f.effect, arg |-> arg,
               fail |-> fail,
               calls |-> f.calls]

\* Whether one more run that adds a table or sends a prompt is explored.
Budget == interactions < MaxInteractions

\* The user picks a page in the sidebar radio (or the page is rendered
\* again for any other reason, such as a download): no button is pressed.
\* The collaborators' answers are drawn only for the page that calls them.
Navigate ==
    \E p \in Pages :
      LET s0 == ModuleInit(session_state)
          chat == p = "Chat with Your Data"
      IN
      \E fail \in IF p = "Table Definition" THEN {"none", "show"} ELSE {"none"},
         resp \in IF chat /\ Truthy(s0["active_suggestion"])
                  THEN Responses ELSE {CHOOSE r \in Responses : TRUE},
         sqlOK \in IF chat THEN BOOLEAN ELSE {TRUE} :
        /\ page' = p
        /\ IF chat /\ Truthy(s0["active_suggestion"])
           THEN Budget /\ interactions' = interactions + 1
           ELSE interactions' = interactions
        /\ Finish(CASE p = "Welcome" -> ShowWelcome(s0)
                    [] p = "Getting Started" -> ShowGetStarted(s0, FALSE, "", "")
                    [] p = "Table Definition" ->
                          ShowTableDefinition(s0, FALSE, "", fail)
                    [] p = "Chat with Your Data" ->
                          ShowCortexAnalyst(s0, None, NoClick, resp, resp, sqlOK)
                    [] p = "Reset" -> ResetApp(s0, FALSE),
                  "navigate", p, IF sqlOK THEN fail ELSE "sql")

\* "Save Semantic Model Info" is pressed with the two texts typed in.
SaveModelInfo ==
    \E semantic_name \in SemanticNames, description \in Descriptions :
      /\ Button("Save Semantic Model Info") \in widgets
      /\ Finish(ShowGetStarted(ModuleInit(session_state), TRUE,
                               semantic_name, description),
                "save", semantic_name, "none")
      /\ UNCHANGED <<page, interactions>>

\* "Add Table to YAML" is pressed with table_selector selected.
AddTable ==
    \E table_selector \in Tables, fail \in {"none", "show"} \cup AddFailPoints :
      /\ Button("Add Table to YAML") \in widgets
      /\ Budget
      /\ interactions' = interactions + 1
      /\ Finish(ShowTableDefinition(ModuleInit(session_state), TRUE,
                                    table_selector, fail),
                "add", table_selector, fail)
      /\ UNCHANGED page

\* "Upload to Stage" is pressed: the callback runs, then the script.
UploadToStage ==
    \E fail \in {"none", "put", "show"} :
      LET cb == UploadToStageCallback(session_state, fail) IN
      /\ Button("Upload to Stage") \in widgets
      /\ IF cb.err # "none"
         THEN Finish(Outcome(cb.st, cb.err, {}, "", <<>>), "upload", "", fail)
         ELSE Finish(ShowTableDefinition(ModuleInit(cb.st), FALSE, "", fail),
                     "upload", "", fail)
      /\ UNCHANGED <<page, interactions>>

\* "Reset" is pressed.
Reset ==
    /\ Button("Reset") \in widgets
    /\ Finish(ResetApp(ModuleInit(session_state), TRUE), "reset", "", "none")
    /\ UNCHANGED <<page, interactions>>

\* A question is typed into the chat input.
ChatInput ==
    \E prompt \in Prompts, resp1 \in Responses, sqlOK \in BOOLEAN :
     \E resp2 \in IF Truthy(ModuleInit(session_state)["active_suggestion"])
                  THEN Responses ELSE {resp1} :
      LET s0 == ModuleInit(session_state) IN
      /\ Button("What is your question?") \in widgets
      /\ Budget
      /\ interactions' = interactions + 1
      /\ Finish(ShowCortexAnalyst(s0, prompt, NoClick, resp1, resp2, sqlOK),
                "chat", prompt, IF sqlOK THEN "none" ELSE "sql")
      /\ UNCHANGED page

\* One of the suggestion buttons the last run rendered is pressed.
ClickSuggestion ==
    \E b \in widgets, resp \in Responses, sqlOK \in BOOLEAN :
      LET s0 == ModuleInit(session_state) IN
      /\ b[1] = "suggestion"
      /\ Budget
      /\ interactions' = interactions + 1
      /\ Finish(ShowCortexAnalyst(s0, None, b, resp, resp, sqlOK),
                "suggestion", "", IF sqlOK THEN "none" ELSE "sql")
      /\ UNCHANGED page

StartRun ==
    [op |-> "start", err |-> "none", effect |-> "", arg |-> "Welcome",
     fail |-> "none", calls |-> <<>>]

\* The session after the first run of the script: the Welcome page.
Init ==
    /\ session_state = ModuleInit(EmptyDict)
    /\ page = "Welcome"
    /\ widgets = {}
    /\ run = StartRun
    /\ interactions = 0

Next ==
    \/ Navigate
    \/ SaveModelInfo
    \/ AddTable
    \/ UploadToStage
    \/ Reset
    \/ ChatInput
    \/ ClickSuggestion

Spec == Init /\ [][Next]_vars

\* The session after "Save Semantic Model Info" and Prefill successful
\* additions of the table ORDERS.
NearlyFull ==
    LET saved == ShowGetStarted(ModuleInit(EmptyDict), TRUE, "sales", "demo model").st
        s1 == Put(saved, "tables", [i \in 1..Prefill |-> "ORDERS"])
        s2 == Put(s1, "yaml_structure",
                  [saved["yaml_structure"] EXCEPT
                      !.tables = [i \in 1..Prefill |-> BuildTableEntry("ORDERS")]])
    IN  StoreYaml(s2)

\* The Table Definition page of a session that already added Prefill tables.
InitCeiling ==
    /\ session_state = NearlyFull
    /\ page = "Table Definition"
    /\ widgets = TablePageWidgets
    /\ run = [op |-> "add", err |-> "none", effect |-> "appended",
              arg |-> "ORDERS", fail |-> "none", calls |-> <<>>]
    /\ interactions = 0

SpecCeiling == InitCeiling /\ [][Next]_vars

-----------------------------------------------------------------------------
(* Vocabulary of the properties *)

HasModel == "yaml_structure" \in DOMAIN session_state

\* The model's tables sequence, st.session_state['yaml_structure']['tables']
ModelTables == session_state["yaml_structure"].tables

\* The step is a run in which "Add Table to YAML" was pressed.
AddStep == run'.op = "add" /\ interactions' = interactions + 1

\* The add run reached the button: the catalog listings above it answered.
ReachedButton == run'.fail # "show"

\* The stored serialized text is the same before and after the step.
YamlStrUnchanged ==
    /\ ("yaml_str" \in DOMAIN session_state) <=> ("yaml_str" \in DOMAIN session_state')
    /\ "yaml_str" \in DOMAIN session_state
          => session_state'["yaml_str"] = session_state["yaml_str"]

\* The model's tables sequence is the same before and after the step.
ModelTablesUnchanged ==
    /\ "yaml_structure" \in DOMAIN session_state'
    /\ session_state'["yaml_structure"].tables = ModelTables

\* An add run that the ceiling check lets through and that ends without an
\* exception.
SuccessfulAdd ==
    /\ AddStep
    /\ "tables" \in DOMAIN session_state
    /\ Len(session_state["tables"]) < TableCeiling
    /\ run'.err = "none"

-----------------------------------------------------------------------------
(* C1: the model's tables sequence never has more than 100 entries, and    *)
(* pressing "Add Table to YAML" once 100 tables have been added is a       *)
(* silent no-op: the run raises nothing and leaves the model's tables      *)
(* sequence and the stored serialized text as they were.                   *)
C1_AtMostCeiling ==
    HasModel => Len(ModelTables) <= TableCeiling

C1_NoOpAtCeiling ==
    (/\ AddStep
     /\ ReachedButton
     /\ "tables" \in DOMAIN session_state
     /\ Len(session_state["tables"]) >= TableCeiling)
    => (/\ run'.err = "none"
        /\ HasModel
        /\ ModelTablesUnchanged
        /\ YamlStrUnchanged)

\* C1: at most 100 tables in every state, and an add pressed at the ceiling
\* is a silent no-op.
C1_Ceiling == [] C1_AtMostCeiling /\ [][C1_NoOpAtCeiling]_vars

\* An add was pressed with 100 tables in the model and did nothing.
C1_Witness ==
    /\ run.op = "add" /\ run.effect = "ceiling" /\ run.err = "none"
    /\ HasModel /\ Len(ModelTables) = TableCeiling
    /\ Len(session_state["tables"]) = TableCeiling

-----------------------------------------------------------------------------
(* C2: when a collaborator call of an Add-table run fails (describe table, *)
(* a column description, a min/max query or the table description), the    *)
(* model's tables sequence and the stored serialized text are what they    *)
(* were before the run: no partly built Table is appended.                 *)
C2_FailedAddStep ==
    (/\ AddStep
     /\ run'.fail \in AddFailPoints
     /\ run'.err = "Exception")
    => (/\ HasModel
        /\ ModelTablesUnchanged
        /\ YamlStrUnchanged)

\* C2: a failed add leaves the tables sequence and the stored text alone.
C2_AllOrNothing == [][C2_FailedAddStep]_vars

\* A min/max query failed in a session whose model already held a table.
C2_Witness ==
    /\ run.op = "add" /\ run.err = "Exception" /\ run.fail = "min_max"
    /\ HasModel /\ Len(ModelTables) = 1
    /\ "yaml_str" \in DOMAIN session_state
    /\ Len(session_state["tables"]) = 2

-----------------------------------------------------------------------------
(* C3: saving the model info starts the tables sequence empty; every       *)
(* successful Add-table run appends exactly one entry, for the selected    *)
(* table, after the entries already there, which it leaves as they were;   *)
(* no other run changes the sequence.  So N successful adds after a save   *)
(* give N entries in the order of the adds, and the same table added twice *)
(* appears twice.                                                          *)
C3_SaveStartsEmpty ==
    run'.op = "save" =>
        /\ "yaml_structure" \in DOMAIN session_state'
        /\ session_state'["yaml_structure"].tables = <<>>

C3_AddAppends ==
    SuccessfulAdd =>
        LET new == session_state'["yaml_structure"].tables IN
        /\ HasModel
        /\ Len(new) = Len(ModelTables) + 1
        /\ SubSeq(new, 1, Len(ModelTables)) = ModelTables
        /\ new[Len(new)].name = run'.arg
        /\ new[Len(new)].base_table.table = run'.arg

C3_NothingElseChanges ==
    (/\ HasModel
     /\ "yaml_structure" \in DOMAIN session_state'
     /\ ~SuccessfulAdd
     /\ run'.op # "save")
    => ModelTablesUnchanged

\* C3: the tables sequence is append-only, in the order of the successful
\* adds, one entry per add, duplicates kept.
C3_AppendOnly ==
    [][C3_SaveStartsEmpty /\ C3_AddAppends /\ C3_NothingElseChanges]_vars

\* The same table was added twice and is in the model twice.
C3_Witness ==
    /\ HasModel /\ Len(ModelTables) = 2
    /\ ModelTables[1].name = "EVENTS" /\ ModelTables[2].name = "EVENTS"
    /\ run.op = "add" /\ run.err = "none"

-----------------------------------------------------------------------------
(* Vocabulary of the properties about Table entries *)

VariantKeys == {"dimensions", "time_dimensions", "measures"}

\* The recognized types of a variant list.
VariantTypes(key) ==
    CASE key = "time_dimensions" -> TemporalTypes
      [] key = "dimensions" -> TextualTypes
      [] key = "measures" -> NumericTypes

\* The Table entries of the model that an Add-table run built (the
\* placeholder document's entry names no catalog table).
BuiltEntries ==
    IF HasModel
    THEN {ModelTables[i] : i \in {j \in 1..Len(ModelTables) : ModelTables[j].name \in Tables}}
    ELSE {}

\* The positions of the list under key at which the column named n stands
\* (none when the key is absent).
Places(e, key, n) ==
    IF key \in DOMAIN e THEN {i \in 1..Len(e[key]) : e[key][i].name = n} ELSE {}

Unclassified(col) ==
    Upper(col.type) \notin TemporalTypes \cup TextualTypes \cup NumericTypes

-----------------------------------------------------------------------------
(* C4: every column of an added table whose uppercased declared type is    *)
(* temporal, textual or numeric stands exactly once in the list of that    *)
(* variant, with data_type the uppercased declared type, and in no other   *)
(* list; no column stands in more than one of the three lists.             *)
\* The loop body on one column of every recognized type, from the empty
\* lists of lines 372-374.
C4_EveryRecognizedType ==
    \A ty \in TemporalTypes \cup TextualTypes \cup NumericTypes :
      LET e == ClassifyColumn([dimensions |-> <<>>, time_dimensions |-> <<>>,
                               measures |-> <<>>],
                              [name |-> "C", type |-> ty], "d")
      IN  \A key \in VariantKeys :
            e[key] = IF ty \in VariantTypes(key)
                     THEN << [name |-> "C", expr |-> "C", description |-> "d",
                              data_type |-> Upper(ty)] >>
                     ELSE <<>>

C4_InModel ==
    \A e \in BuiltEntries :
      LET cols == DescribeTable(e.name) IN
      \A c \in 1..Len(cols) :
        /\ \A key \in VariantKeys :
             IF Upper(cols[c].type) \in VariantTypes(key)
             THEN /\ Cardinality(Places(e, key, cols[c].name)) = 1
                  /\ \A i \in Places(e, key, cols[c].name) :
                       /\ e[key][i].data_type = Upper(cols[c].type)
                       /\ e[key][i].expr = cols[c].name
             ELSE Places(e, key, cols[c].name) = {}
        /\ Cardinality({key \in VariantKeys : Places(e, key, cols[c].name) # {}}) <= 1

\* C4: each recognized column stands once, in the list of its type, with
\* the uppercased type; no column stands in two lists.
C4_Classification == C4_EveryRecognizedType /\ C4_InModel

\* The model holds ORDERS and EVENTS: NUMBER, VARCHAR(50) and TIMESTAMP_NTZ
\* went to measures, dimensions and time_dimensions, and the lower-case
\* "date" was classified as DATE.
C4_Witness ==
    /\ \E e \in BuiltEntries :
         /\ e.name = "ORDERS"
         /\ Places(e, "measures", "ID") = {1}
         /\ Places(e, "dimensions", "NAME") = {1}
         /\ Places(e, "time_dimensions", "CREATED_AT") = {1}
    /\ \E e \in BuiltEntries :
         /\ e.name = "EVENTS"
         /\ Places(e, "time_dimensions", "DAY") = {1}
         /\ Places(e, "time_dimensions", "UNTIL") = {2}
         /\ e["time_dimensions"][1].data_type = "DATE"

-----------------------------------------------------------------------------
(* C5: a column whose uppercased declared type is in none of the three     *)
(* sets stands in none of the three lists of its Table entry, and an       *)
(* Add-table run in which no collaborator fails still ends without an      *)
(* exception and appends the Table whatever the types of its columns.      *)
C5_Dropped ==
    \A e \in BuiltEntries :
      LET cols == DescribeTable(e.name) IN
      \A c \in 1..Len(cols) :
        Unclassified(cols[c]) =>
            \A key \in VariantKeys : Places(e, key, cols[c].name) = {}

C5_StillCompletes ==
    (/\ AddStep
     /\ run'.fail = "none"
     /\ "tables" \in DOMAIN session_state
     /\ Len(session_state["tables"]) < TableCeiling)
    => (/\ run'.err = "none"
        /\ LET new == session_state'["yaml_structure"].tables IN
           /\ Len(new) = Len(ModelTables) + 1
           /\ new[Len(new)].name = run'.arg)

\* C5: unrecognized columns are in no list, and the add still completes.
C5_SilentDrop == [] C5_Dropped /\ [][C5_StillCompletes]_vars

\* EVENTS, with its VARIANT and NUMBER(38,0) columns, was just added
\* without an exception.
C5_Witness ==
    /\ run.op = "add" /\ run.arg = "EVENTS" /\ run.err = "none"
    /\ \E c \in 1..Len(DescribeTable("EVENTS")) : Unclassified(DescribeTable("EVENTS")[c])
    /\ HasModel /\ Len(ModelTables) >= 1
    /\ ModelTables[Len(ModelTables)].name = "EVENTS"
    /\ \A key \in VariantKeys :
         Places(ModelTables[Len(ModelTables)], key, "PAYLOAD") = {}

-----------------------------------------------------------------------------
(* C6: in every Table entry an Add-table run appended, each of the keys    *)
(* dimensions, time_dimensions and measures is either absent or maps to a  *)
(* non-empty list, and it is absent exactly when no column of the table    *)
(* classified into that variant.                                           *)
C6_NoEmptyVariant ==
    \A e \in BuiltEntries :
      LET cols == DescribeTable(e.name) IN
      \A key \in VariantKeys :
        /\ key \in DOMAIN e => Len(e[key]) > 0
        /\ key \notin DOMAIN e
             <=> ~ \E c \in 1..Len(cols) : Upper(cols[c].type) \in VariantTypes(key)

\* The model holds FLAGS, which has none of the three keys, and EVENTS,
\* which has no measures.
C6_Witness ==
    /\ \E e \in BuiltEntries : e.name = "FLAGS" /\ DOMAIN e \cap VariantKeys = {}
    /\ \E e \in BuiltEntries :
         e.name = "EVENTS" /\ DOMAIN e \cap VariantKeys = {"dimensions", "time_dimensions"}

-----------------------------------------------------------------------------
(* C7: after every successful Add-table run the stored yaml_str is the     *)
(* serialization of the whole model of that moment: it opens with the      *)
(* model's name and description and has one list item per table of the     *)
(* model, the earlier ones included.                                       *)
TopLevelItems(text) ==
    {i \in 1..Len(text) : text[i][1] = 0 /\ text[i][2] /\ text[i][3] = "name"}

C7_AddStep ==
    SuccessfulAdd =>
        LET doc  == session_state'["yaml_structure"]
            text == session_state'["yaml_str"]
        IN  /\ "yaml_str" \in DOMAIN session_state'
            /\ text = Dump(doc)
            /\ text[1] = <<0, FALSE, "name", Scalar(doc.name)>>
            /\ text[2] = <<0, FALSE, "description", Scalar(doc.description)>>
            /\ Cardinality(TopLevelItems(text)) = Len(doc.tables)
            /\ \A t \in 1..Len(doc.tables) :
                 \E i \in TopLevelItems(text) :
                   /\ text[i][4] = doc.tables[t].name
                   /\ Cardinality({j \in TopLevelItems(text) : j < i}) = t - 1

\* C7: after a successful add, yaml_str is the dump of the whole model.
C7_WholeModelSerialized == [][C7_AddStep]_vars

\* Two different tables were added and the stored text lists both.
C7_Witness ==
    /\ run.op = "add" /\ run.err = "none" /\ run.effect = "appended"
    /\ HasModel /\ Len(ModelTables) = 2
    /\ ModelTables[1].name = "ORDERS" /\ ModelTables[2].name = "FLAGS"
    /\ "yaml_str" \in DOMAIN session_state
    /\ {session_state["yaml_str"][i][4] : i \in TopLevelItems(session_state["yaml_str"])}
         = {"ORDERS", "FLAGS"}

-----------------------------------------------------------------------------
(* C8: the run in which "Reset" is pressed leaves nothing in the session   *)
(* state: no semantic name, description, model document, list of added     *)
(* tables, serialized text, uploaded file reference or chat history.       *)
SessionKeys ==
    {"semantic_name", "description", "yaml_structure", "tables", "yaml_str",
     "semantic_file_name", "messages", "suggestions", "active_suggestion"}

C8_ResetStep ==
    (run'.op = "reset" /\ Button("Reset") \in widgets)
    => (/\ DOMAIN session_state' \cap SessionKeys = {}
        /\ DOMAIN session_state' = {})

C8_AfterReset == run.op = "reset" => DOMAIN session_state = {}

\* C8: the run that presses "Reset" leaves the session state empty.
C8_ResetDiscardsAll == [] C8_AfterReset /\ [][C8_ResetStep]_vars

\* The session right after a reset that came after MaxInteractions runs
\* that added tables or sent prompts.
C8_Witness ==
    /\ run.op = "reset" /\ DOMAIN session_state = {}
    /\ interactions = MaxInteractions

-----------------------------------------------------------------------------
(* C9: send_message is called once for every prompt a run processes; it    *)
(* returns the parsed body exactly when the status is below 400 and raises *)
(* otherwise; a raise ends the run (the failed call is the run's last: no  *)
(* retry), and the history then ends with the user message of that prompt: *)
(* no assistant message was appended for it.                               *)
Messages(s) == IF "messages" \in DOMAIN s THEN s["messages"] ELSE <<>>

\* The messages the step appended to the chat history.
Appended ==
    SubSeq(Messages(session_state'), Len(Messages(session_state)) + 1,
           Len(Messages(session_state')))

OfRole(msgs, role) == SelectSeq(msgs, LAMBDA m : m.role = role)

C9_ChatStep ==
    run'.calls # <<>> =>
      LET calls == run'.calls
          n     == Len(calls)
          users == OfRole(Appended, "user")
      IN
      /\ SubSeq(Messages(session_state'), 1, Len(Messages(session_state)))
            = Messages(session_state)
      /\ \A i \in 1..n : calls[i].returned <=> calls[i].status < FailStatus
      /\ Len(users) = n
      /\ \A i \in 1..n : users[i] = UserMessage(calls[i].prompt)
      /\ Len(OfRole(Appended, "assistant"))
            <= Cardinality({i \in 1..n : calls[i].status < FailStatus})
      /\ \A i \in 1..n :
           calls[i].status >= FailStatus =>
             /\ i = n
             /\ run'.err = "Exception"
             /\ Appended[Len(Appended)] = UserMessage(calls[i].prompt)

\* C9: one send_message call per prompt; it returns iff status < 400; a
\* failure ends the run with no assistant message appended.
C9_FailedRequestAborts == [][C9_ChatStep]_vars

\* A request answered with status 400 ended the run after an earlier
\* exchange had completed.
C9_Witness ==
    /\ run.calls # <<>>
    /\ run.calls[Len(run.calls)].status = 400
    /\ run.err = "Exception"
    /\ Len(Messages(session_state)) = 3
    /\ session_state["messages"][2].role = "assistant"
    /\ session_state["messages"][3].role = "user"

-----------------------------------------------------------------------------
(* C10: whenever a serialized text is stored in the session, it is the     *)
(* serialization of the model document the session holds.                  *)
C10_YamlStrIsCurrent ==
    "yaml_str" \in DOMAIN session_state
        => /\ HasModel
           /\ session_state["yaml_str"] = Dump(session_state["yaml_structure"])

-----------------------------------------------------------------------------
(* C11: in every state in which both exist, the list of added table names  *)
(* that the ceiling check of line 352 measures (session 'tables') is as    *)
(* long as the model's tables sequence: an Add-table run that a            *)
(* collaborator failure aborts consumes none of the 100 slots.             *)
C11_TablesInSync ==
    ("tables" \in DOMAIN session_state /\ HasModel)
        => Len(session_state["tables"]) = Len(ModelTables)

-----------------------------------------------------------------------------
(* C12: whenever a rendering of the chat page ends, normally or by a       *)
(* propagated request failure, active_suggestion is None: a clicked        *)
(* suggestion is sent to the conversational service once and is not sent   *)
(* again by a later rendering.                                             *)
\* The last run rendered the chat page.
ChatPageRendered == page = "Chat with Your Data"

\* The last run ended because its last send_message call raised.
RequestFailed ==
    /\ run.err = "Exception"
    /\ run.calls # <<>>
    /\ ~run.calls[Len(run.calls)].returned

C12_SuggestionCleared ==
    (/\ ChatPageRendered
     /\ "active_suggestion" \in DOMAIN session_state
     /\ run.err = "none" \/ RequestFailed)
    => session_state["active_suggestion"] = None

=============================================================================
